---- MODULE Spec2Model ----
(***************************************************************************)
(* Model of the waybar-config backend: the JSONC comment stripper          *)
(* (config/parser.rs), the commands that load, save, list and restore      *)
(* files (commands.rs), the write-with-backup routine they call            *)
(* (config/writer.rs), compositor detection (system/compositor.rs) and     *)
(* the restart of Waybar (waybar/process.rs).                              *)
(***************************************************************************)
EXTENDS Integers, Sequences, FiniteSets, TLC

(***************************************************************************)
(* Characters.  A text is a sequence of one-character strings.  The        *)
(* scanner tells five characters apart; every other character goes down    *)
(* the same path, and PLAIN stands for all of them.                        *)
(***************************************************************************)
DQ == "\""
BS == "\\"
SL == "/"
ST == "*"
NL == "\n"
PLAIN == "1"
\* the structural characters of a JSON array; PLAIN to the scanner
LB == "["
RB == "]"
CM == ","
\* the value of `prev` when a block comment starts (parser.rs:50)
SPACE == " "
\* chars.peek() at the end of the input
NoChar == "EOF"

\* Longest input text of the exhaustive specification.
MaxLen == 6

Alphabet == {DQ, BS, SL, ST, NL, PLAIN}

RECURSIVE SeqsUpTo(_, _)
\* every sequence over S of length at most n
SeqsUpTo(S, n) ==
    IF n = 0 THEN {<<>>}
    ELSE LET shorter == SeqsUpTo(S, n - 1)
         IN  shorter \cup {Append(t, c) : t \in {u \in shorter : Len(u) = n - 1}, c \in S}

Texts == SeqsUpTo(Alphabet, MaxLen)

(***************************************************************************)
(* strip_jsonc_comments (parser.rs:9-65).  A scanner state is the record   *)
(* [content, pos, in_string, escape_next, result]; pos is the index of the *)
(* character the next chars.next() yields.                                 *)
(***************************************************************************)
ScanInit(text) ==
    [content |-> text, pos |-> 1, in_string |-> FALSE,
     escape_next |-> FALSE, result |-> <<>>]

\* a slip: the lookahead is one character too far
PeekSecond(s) ==
    IF s.pos + 2 <= Len(s.content) THEN s.content[s.pos + 2] ELSE NoChar

\* chars.peek() once ch has been taken
Peek(s) ==
    IF s.pos + 1 <= Len(s.content) THEN s.content[s.pos + 1] ELSE NoChar

\* a slip: the escape state is ignored, every double quote toggles in_string
IsStringDelimiterAlways(s, ch) == ch = DQ

\* parser.rs:17
IsStringDelimiter(s, ch) == ch = DQ /\ ~s.escape_next

\* a slip: a backslash never escapes the character after it
IsEscapeNever(s, ch) == FALSE

\* parser.rs:24
IsEscape(s, ch) == ch = BS /\ s.in_string

\* a slip: the in_string test is missing
StartsLineCommentAnywhere(s, ch) == ch = SL /\ Peek(s) = SL

\* parser.rs:32-34
StartsLineComment(s, ch) == ~s.in_string /\ ch = SL /\ Peek(s) = SL

\* a slip: the in_string test is missing
StartsBlockCommentAnywhere(s, ch) == ch = SL /\ Peek(s) = ST

\* parser.rs:32,47
StartsBlockComment(s, ch) == ~s.in_string /\ ch = SL /\ Peek(s) = ST

RECURSIVE SkipLineDropNewline(_, _)
\* a slip: the newline that ends the comment is consumed and not pushed
SkipLineDropNewline(text, i) ==
    IF i > Len(text) THEN [pos |-> i, newline |-> FALSE]
    ELSE IF text[i] = NL THEN [pos |-> i + 1, newline |-> FALSE]
    ELSE SkipLineDropNewline(text, i + 1)

RECURSIVE SkipLine(_, _)
\* parser.rs:37-42: from index i, drop characters up to the next newline.
\* Gives the index after the loop and whether a newline was pushed.
SkipLine(text, i) ==
    IF i > Len(text) THEN [pos |-> i, newline |-> FALSE]
    ELSE IF text[i] = NL THEN [pos |-> i + 1, newline |-> TRUE]
    ELSE SkipLine(text, i + 1)

RECURSIVE SkipBlockAnySlash(_, _, _)
\* a slip: the test of prev is missing, so the first '/' ends the comment
SkipBlockAnySlash(text, i, prev) ==
    IF i > Len(text) THEN i
    ELSE IF text[i] = SL THEN i + 1
    ELSE SkipBlockAnySlash(text, i + 1, text[i])

RECURSIVE SkipBlock(_, _, _)
\* parser.rs:50-56: from index i, drop characters through the first '*' '/'
\* pair.  Gives the index after the loop.
SkipBlock(text, i, prev) ==
    IF i > Len(text) THEN i
    ELSE IF prev = ST /\ text[i] = SL THEN i + 1
    ELSE SkipBlock(text, i + 1, text[i])

\* parser.rs:15-62: one iteration of the while-let loop
LoopBody(s) ==
    LET ch == s.content[s.pos]
    IN  IF IsStringDelimiter(s, ch)
          THEN [s EXCEPT !.pos = s.pos + 1, !.in_string = ~s.in_string,
                         !.result = Append(s.result, ch)]
        ELSE IF IsEscape(s, ch)
          THEN [s EXCEPT !.pos = s.pos + 1, !.escape_next = ~s.escape_next,
                         !.result = Append(s.result, ch)]
        ELSE IF StartsLineComment(s, ch)
          THEN LET r == SkipLine(s.content, s.pos + 2)
               IN  [s EXCEPT !.pos = r.pos, !.escape_next = FALSE,
                             !.result = IF r.newline THEN Append(s.result, NL)
                                        ELSE s.result]
        ELSE IF StartsBlockComment(s, ch)
          THEN [s EXCEPT !.pos = SkipBlock(s.content, s.pos + 2, SPACE),
                         !.escape_next = FALSE]
        ELSE [s EXCEPT !.pos = s.pos + 1, !.escape_next = FALSE,
                       !.result = Append(s.result, ch)]

\* chars.next() gives None (parser.rs:15)
AtEnd(s) == s.pos > Len(s.content)

RECURSIVE RunScan(_)
RunScan(s) == IF AtEnd(s) THEN s.result ELSE RunScan(LoopBody(s))

\* parser.rs:9-65 as a function of the input text
strip_jsonc_comments(text) == RunScan(ScanInit(text))

(***************************************************************************)
(* serde_json::from_str::<Value> (called at parser.rs:70 and 75) on the    *)
(* JSON texts the model writes: numbers made of the digit PLAIN, strings,  *)
(* arrays, and the newline as whitespace.  A value is <<"num", digits>>,   *)
(* <<"str", characters>> or <<"arr", values>>.                             *)
(***************************************************************************)
JsonError == [ok |-> FALSE, value |-> <<>>, next |-> 0]

RECURSIVE SkipWhitespace(_, _)
SkipWhitespace(t, i) ==
    IF i <= Len(t) /\ t[i] = NL THEN SkipWhitespace(t, i + 1) ELSE i

RECURSIVE ParseNumber(_, _, _)
\* the digits from index i on; acc holds the digits read
ParseNumber(t, i, acc) ==
    IF i <= Len(t) /\ t[i] = PLAIN THEN ParseNumber(t, i + 1, Append(acc, PLAIN))
    ELSE [ok |-> TRUE, value |-> <<"num", acc>>, next |-> i]

RECURSIVE ParseString(_, _, _)
\* the characters of a string whose opening quote is before index i: an
\* escape is a backslash and one of '"', '\\', '/'; a raw control character
\* (the newline) is an error
ParseString(t, i, acc) ==
    IF i > Len(t) THEN JsonError
    ELSE IF t[i] = DQ THEN [ok |-> TRUE, value |-> <<"str", acc>>, next |-> i + 1]
    ELSE IF t[i] = NL THEN JsonError
    ELSE IF t[i] = BS
      THEN IF i + 1 <= Len(t) /\ t[i + 1] \in {DQ, BS, SL}
             THEN ParseString(t, i + 2, Append(acc, t[i + 1]))
             ELSE JsonError
    ELSE ParseString(t, i + 1, Append(acc, t[i]))

RECURSIVE ParseValue(_, _)
RECURSIVE ParseElements(_, _, _)
\* the elements of an array after its '[' or after a ',': a value, then ','
\* or ']'
ParseElements(t, i, acc) ==
    LET v == ParseValue(t, SkipWhitespace(t, i))
        j == SkipWhitespace(t, v.next)
    IN  IF ~v.ok \/ j > Len(t) THEN JsonError
        ELSE IF t[j] = RB
          THEN [ok |-> TRUE, value |-> <<"arr", Append(acc, v.value)>>, next |-> j + 1]
        ELSE IF t[j] = CM THEN ParseElements(t, j + 1, Append(acc, v.value))
        ELSE JsonError

\* the value that starts at index i
ParseValue(t, i) ==
    IF i > Len(t) THEN JsonError
    ELSE IF t[i] = PLAIN THEN ParseNumber(t, i, <<>>)
    ELSE IF t[i] = DQ THEN ParseString(t, i + 1, <<>>)
    ELSE IF t[i] = LB
      THEN LET j == SkipWhitespace(t, i + 1)
           IN  IF j <= Len(t) /\ t[j] = RB
                 THEN [ok |-> TRUE, value |-> <<"arr", <<>>>>, next |-> j + 1]
                 ELSE ParseElements(t, i + 1, <<>>)
    ELSE JsonError

\* one value, whitespace around it, and nothing after
from_str(t) ==
    LET v == ParseValue(t, SkipWhitespace(t, 1))
    IN  IF v.ok /\ SkipWhitespace(t, v.next) > Len(t)
          THEN [ok |-> TRUE, value |-> v.value]
          ELSE [ok |-> FALSE, value |-> <<>>]

(***************************************************************************)
(* JSON values written out with comments between their tokens.             *)
(***************************************************************************)
\* Most comments put into one document.
MaxComments == 2

Num(digits) == <<"num", digits>>
Str(chars) == <<"str", chars>>
Arr(values) == <<"arr", values>>

StringValues == {Str(c) : c \in SeqsUpTo({DQ, BS, SL, ST}, 2)}
ArrayValues ==
    {Arr(<<>>), Arr(<<Str(<<SL, ST>>)>>), Arr(<<Num(<<PLAIN>>), Str(<<DQ, SL>>)>>)}
Values == {Num(<<PLAIN>>), Num(<<PLAIN, PLAIN>>)} \cup StringValues \cup ArrayValues

RECURSIVE EscapeChars(_)
\* the characters of a string as a serializer writes them between the quotes
EscapeChars(chars) ==
    IF chars = <<>> THEN <<>>
    ELSE (IF Head(chars) \in {DQ, BS} THEN <<BS, Head(chars)>> ELSE <<Head(chars)>>)
             \o EscapeChars(Tail(chars))

RECURSIVE Tokens(_)
RECURSIVE ElementTokens(_)
\* the tokens of the elements of an array, a ',' between two elements
ElementTokens(values) ==
    IF values = <<>> THEN <<>>
    ELSE IF Len(values) = 1 THEN Tokens(values[1])
    ELSE Tokens(values[1]) \o << <<CM>> >> \o ElementTokens(Tail(values))

\* the tokens of the compact serialization of a value
Tokens(v) ==
    IF v[1] = "num" THEN << v[2] >>
    ELSE IF v[1] = "str" THEN << <<DQ>> \o EscapeChars(v[2]) \o <<DQ>> >>
    ELSE << <<LB>> >> \o ElementTokens(v[2]) \o << <<RB>> >>

LineBodies == {<<>>, <<DQ>>, <<BS>>, <<SL, ST>>}
BlockBodies == {<<>>, <<DQ>>, <<SL>>, <<ST>>, <<NL>>}

\* A piece of a document is <<kind, text>>: a token, a line comment with
\* the newline that ends it, a block comment, or a line comment that runs
\* to the end of the document.
LineComments == {<<"line", <<SL, SL>> \o b \o <<NL>> >> : b \in LineBodies}
BlockComments == {<<"block", <<SL, ST>> \o b \o <<ST, SL>> >> : b \in BlockBodies}
TailComments == {<<"tail", <<SL, SL>> \o b>> : b \in LineBodies}
Comments == LineComments \cup BlockComments

RECURSIVE Interleave(_, _)
\* the documents made of the tokens, in order, and at most k comments
Interleave(tokens, k) ==
    (IF tokens = <<>>
       THEN {<<>>} \cup (IF k > 0 THEN {<<c>> : c \in TailComments} ELSE {})
       ELSE {<< <<"token", Head(tokens)>> >> \o d : d \in Interleave(Tail(tokens), k)})
    \cup
    (IF k > 0
       THEN {<<c>> \o d : c \in Comments, d \in Interleave(tokens, k - 1)}
       ELSE {})

RECURSIVE Flatten(_)
\* the text of a document
Flatten(d) == IF d = <<>> THEN <<>> ELSE Head(d)[2] \o Flatten(Tail(d))

RECURSIVE WithoutComments(_)
\* the text of a document with every comment taken out but the newline that
\* ends a line comment
WithoutComments(d) ==
    IF d = <<>> THEN <<>>
    ELSE (IF Head(d)[1] = "token" THEN Head(d)[2]
          ELSE IF Head(d)[1] = "line" THEN <<NL>>
          ELSE <<>>) \o WithoutComments(Tail(d))

NoValue == <<"none">>

(***************************************************************************)
(* Files.  A file name is <<path, stamp>>: stamp 0 names the file at path, *)
(* stamp t > 0 its backup taken at time t (path, the marker ".backup." and *)
(* the timestamp).  A file system is a function from the names of the      *)
(* files that exist to their texts.                                        *)
(***************************************************************************)
\* config/mod.rs:42-43
ConfigFile == "config.jsonc"
StyleFile == "style.css"
Paths == {ConfigFile, StyleFile}

\* The commands run on the async runtime; two callers stand for its tasks.
Callers == {1, 2}

\* Last reading of the clock that stamps the backups.
MaxClock == 2
\* Most commands called in one run.
MaxCalls == 3
\* Most commands called in one run of concurrent callers.
MaxRaceCalls == 2

File(path) == <<path, 0>>

\* the sibling path create_backup copies the file at path to at time t
BackupName(path, t) == <<path, t>>

\* commands.rs:118: the file name holds the marker ".backup."
IsBackup(name) == name[2] > 0

\* Path::exists (commands.rs:133)
Exists(fs, name) == name \in DOMAIN fs

\* the file system fs with the file `name` holding text
Put(fs, name, text) ==
    [n \in DOMAIN fs \cup {name} |-> IF n = name THEN text ELSE fs[n]]

\* write_all of text at offset 0 of a file that holds old
Overlay(text, old) ==
    IF Len(old) > Len(text) THEN text \o SubSeq(old, Len(text) + 1, Len(old))
    ELSE text

\* the contents save_config is called with: two JSON texts, one with a
\* trailing comma, one with a comment
JsonInputs == {<<PLAIN>>, <<LB, RB>>, <<LB, PLAIN, CM, RB>>, <<SL, ST, ST, SL, PLAIN>>}

\* the contents save_css is called with
CssInputs == {<<>>, <<NL>>, <<ST>>, <<ST, NL, ST>>}

\* the files found when the program starts
InitialConfigs == {<<PLAIN, PLAIN>>, <<SL, SL, PLAIN, NL, LB, RB>>}
InitialStyles == {<<ST, ST>>}

\* a slip: the comments are stripped before the content is parsed
ValidateJsonc(content) == from_str(strip_jsonc_comments(content)).ok

\* parser.rs:74-78: Ok exactly when serde_json parses the content
validate_json(content) == from_str(content).ok

\* commands.rs:94: content.trim().is_empty()
IsBlank(content) == \A i \in 1..Len(content) : content[i] = NL

\* the header add_config_comments puts before the content (commands.rs:69)
ConfigHeader == <<SL, SL, PLAIN, NL>>
add_config_comments(content) == ConfigHeader \o content

NoName == <<"", 0>>

\* A caller that runs no command.  Of the fields, pre (the file system when
\* the command began), input (the content it was called with), loaded (the
\* content came from load_config) and last (its write to path is the latest
\* one) are kept for the properties only.
Idle ==
    [op |-> "none", pc |-> "idle", path |-> "", content |-> <<>>,
     source |-> NoName, stamp |-> 0, result |-> "none", failure |-> "none",
     pre |-> <<>>, input |-> <<>>, loaded |-> FALSE, last |-> FALSE,
     listing |-> <<>>]

\* write_config_file after its backup step: a failed backup aborts the call
WriteAfterBackup(ok) == IF ok THEN "write" ELSE "done"

\* a slip: the error of create_backup is dropped
RestoreAfterBackupIgnored(ok) == "copy_read"

\* commands.rs:134: create_backup(&target_path)?
RestoreAfterBackup(ok) == IF ok THEN "copy_read" ELSE "done"

(***************************************************************************)
(* Compositor detection (system/compositor.rs).  An environment variable   *)
(* is unset, set to bytes that are not valid Unicode, or set to a string.  *)
(***************************************************************************)
\* the variants of enum Compositor (compositor.rs:17-30)
Hyprland == "Compositor::Hyprland"
Sway == "Compositor::Sway"
River == "Compositor::River"
Dwl == "Compositor::Dwl"
Niri == "Compositor::Niri"
Unknown == "Compositor::Unknown"

\* compositor.rs:34-43
as_str(c) ==
    CASE c = Hyprland -> "hyprland"
      [] c = Sway -> "sway"
      [] c = River -> "river"
      [] c = Dwl -> "dwl"
      [] c = Niri -> "niri"
      [] c = Unknown -> "unknown"

\* compositor.rs:46-48
is_known(c) == c # Unknown

\* the strings the environment variables and the arguments are drawn from
Strings ==
    {"Hyprland", "HYPRLAND", "sway", "Sway", "river", "dwl", "niri", "NIRI",
     "unknown", "GNOME", "sway:wlroots", ""}

\* str::to_lowercase (compositor.rs:59) on Strings
to_lowercase(s) ==
    CASE s \in {"Hyprland", "HYPRLAND"} -> "hyprland"
      [] s = "Sway" -> "sway"
      [] s = "NIRI" -> "niri"
      [] s = "GNOME" -> "gnome"
      [] OTHER -> s

\* compositor.rs:57-69: impl From<&str> for Compositor
From(s) ==
    LET lower == to_lowercase(s)
    IN  CASE lower = "hyprland" -> Hyprland
          [] lower = "sway" -> Sway
          [] lower = "river" -> River
          [] lower = "dwl" -> Dwl
          [] lower = "niri" -> Niri
          [] OTHER -> Unknown

Unset == "<unset>"
NotUnicode == "<not unicode>"
EnvValues == {Unset, NotUnicode} \cup Strings

\* env::var(name).is_ok(): the variable is set and its value is valid Unicode
VarIsOk(e, name) == e[name] \notin {Unset, NotUnicode}

\* a slip: the session test is dropped
IsWaylandSessionAlways(e) == TRUE

\* compositor.rs:141-143
is_wayland_session(e) == VarIsOk(e, "WAYLAND_DISPLAY")

\* compositor.rs:153-159: the process names pgrep is run on, in order
ProcessNames == <<"Hyprland", "sway", "river", "dwl", "niri">>
ProcessCompositor == <<Hyprland, Sway, River, Dwl, Niri>>

\* an environment: the variables, and the compositor processes that run
Environments ==
    [WAYLAND_DISPLAY : {Unset, NotUnicode, "wayland-1"},
     XDG_CURRENT_DESKTOP : EnvValues,
     WAYLAND_COMPOSITOR : {Unset, "sway", "Hyprland", "GNOME"},
     running : {{}, {"sway"}, {"niri"}, {"Hyprland", "sway"}, {"river", "dwl"},
                {"dwl", "niri"}}]

NoEnv ==
    [WAYLAND_DISPLAY |-> Unset, XDG_CURRENT_DESKTOP |-> Unset,
     WAYLAND_COMPOSITOR |-> Unset, running |-> {}]

\* Most Waybar processes started in one run.
MaxProcs == 2

\* process.rs:81-89: pgrep waybar lists the processes that have not exited
Alive(w) == {i \in 1..Len(w) : w[i] \in {"running", "terminating"}}

\* pkill waybar: SIGTERM is delivered to every process that has not exited
Signalled(w) ==
    [i \in 1..Len(w) |-> IF w[i] = "running" THEN "terminating" ELSE w[i]]

\* no command of system/ or waybar/ runs
SysIdle ==
    [op |-> "none", pc |-> "idle", name |-> "", requested |-> Unknown,
     current |-> Unknown, idx |-> 0, pgrep_failed |-> FALSE,
     result |-> "none", value |-> "none", stop |-> "none", before |-> 0]

(***************************************************************************)
(* State: one call of parse_jsonc (parser.rs:68-71), the file system and   *)
(* the file commands, the environment and the system commands.             *)
(***************************************************************************)
VARIABLES
    scan,       \* the scanner state of the running strip_jsonc_comments call
    pc,         \* "scan": in the loop; "stripped": strip_jsonc_comments has
                \* returned; "parsed": serde_json::from_str has returned
    stripped,   \* the String strip_jsonc_comments returned
    parsed,     \* what serde_json::from_str returned
    value,      \* the JSON value the content was written from, if any
    doc,        \* the pieces the content was written as, if any
    files,      \* the file system
    now,        \* the clock, in units of the backup timestamp
    call,       \* per caller, the command it runs and where it stands in it
    ncalls,     \* the number of commands called so far
    env,        \* the environment variables of the process
    waybar,     \* the Waybar processes, in the order they were started
    sys         \* the running command of system/ or waybar/, and its position

parserVars == <<scan, pc, stripped, parsed, value, doc>>
fileVars == <<files, now, call, ncalls>>
sysVars == <<env, waybar, sys>>
vars ==
    <<scan, pc, stripped, parsed, value, doc, files, now, call, ncalls,
      env, waybar, sys>>

\* no file, no command
NoFiles ==
    /\ files = <<>>
    /\ now = 1
    /\ call = [p \in Callers |-> Idle]
    /\ ncalls = 0

\* no Waybar process, no system command
NoSystem ==
    /\ env = NoEnv
    /\ waybar = <<>>
    /\ sys = SysIdle

NotParsed == [ok |-> FALSE, value |-> <<>>]

\* parse_jsonc is called on any text of at most MaxLen characters
Init ==
    /\ scan \in {ScanInit(t) : t \in Texts}
    /\ pc = "scan"
    /\ stripped = <<>>
    /\ parsed = NotParsed
    /\ value = NoValue
    /\ doc = <<>>
    /\ NoFiles
    /\ NoSystem

\* parse_jsonc is called on a JSON value written out with comments
InitRoundTrip ==
    /\ value \in Values
    /\ doc \in Interleave(Tokens(value), MaxComments)
    /\ scan = ScanInit(Flatten(doc))
    /\ pc = "scan"
    /\ stripped = <<>>
    /\ parsed = NotParsed
    /\ NoFiles
    /\ NoSystem

\* one iteration of the loop of strip_jsonc_comments
ScanStep ==
    /\ pc = "scan"
    /\ ~AtEnd(scan)
    /\ scan' = LoopBody(scan)
    /\ UNCHANGED <<pc, stripped, parsed, value, doc, fileVars, sysVars>>

\* the loop ends and the function returns result (parser.rs:64)
ScanReturn ==
    /\ pc = "scan"
    /\ AtEnd(scan)
    /\ stripped' = scan.result
    /\ pc' = "stripped"
    /\ UNCHANGED <<scan, parsed, value, doc, fileVars, sysVars>>

\* parse_jsonc parses the stripped text (parser.rs:70)
ParseStripped ==
    /\ pc = "stripped"
    /\ parsed' = from_str(stripped)
    /\ pc' = "parsed"
    /\ UNCHANGED <<scan, stripped, value, doc, fileVars, sysVars>>

Next == ScanStep \/ ScanReturn \/ ParseStripped

Spec == Init /\ [][Next]_vars

SpecRoundTrip == InitRoundTrip /\ [][Next]_vars

(***************************************************************************)
(* The commands that write files (commands.rs) and write_config_file and   *)
(* create_backup (config/writer.rs), which they call.                      *)
(***************************************************************************)
\* the program starts on a directory that holds each file or not, and no
\* backup
InitFiles ==
    /\ \E config \in InitialConfigs \cup {<<>>}, style \in InitialStyles \cup {<<>>} :
           files = [n \in (IF config = <<>> THEN {} ELSE {File(ConfigFile)})
                          \cup (IF style = <<>> THEN {} ELSE {File(StyleFile)})
                      |-> IF n = File(ConfigFile) THEN config ELSE style]
    /\ now = 1
    /\ call = [p \in Callers |-> Idle]
    /\ ncalls = 0
    /\ scan = ScanInit(<<>>)
    /\ pc = "idle"
    /\ stripped = <<>>
    /\ parsed = NotParsed
    /\ value = NoValue
    /\ doc = <<>>
    /\ NoSystem

\* no command is running: the commands of this specification run one at a
\* time
NoneRunning == \A q \in Callers : call[q].pc = "idle"

CanCall(p) == call[p].pc = "idle" /\ ncalls < MaxCalls

\* the caller p ends its command with an error at step `failure`
Failed(p, kind, failure) ==
    [call[p] EXCEPT !.pc = "done", !.result = kind, !.failure = failure]

\* a slip: the content is not validated
SaveConfigUnchecked(path, content, fs) ==
    [Idle EXCEPT !.op = "save_config", !.pc = "exists", !.path = path,
                 !.content = add_config_comments(content),
                 !.pre = fs, !.input = content]

\* commands.rs:64-72: save_config(path, content) up to the call of
\* write_config_file, on the file system fs
SaveConfigBegin(path, content, fs) ==
    IF validate_json(content)
      THEN [Idle EXCEPT !.op = "save_config", !.pc = "exists", !.path = path,
                        !.content = add_config_comments(content),
                        !.pre = fs, !.input = content]
      ELSE [Idle EXCEPT !.op = "save_config", !.pc = "done", !.path = path,
                        !.content = content, !.pre = fs, !.input = content,
                        !.result = "Validation", !.failure = "validate"]

\* save_config is called
SaveConfig(p, path, content) ==
    /\ CanCall(p)
    /\ call' = [call EXCEPT ![p] = SaveConfigBegin(path, content, files)]
    /\ ncalls' = ncalls + 1
    /\ UNCHANGED <<files, now, parserVars, sysVars>>

\* a slip: the comment-stripped text is returned
LoadedContentStripped(content, strippedText) == strippedText

\* commands.rs:55-58: the content of the WaybarConfigFile returned
LoadedContent(content, strippedText) == content

\* commands.rs:39-59: load_config(path).  fs::read_to_string fails with
\* NotFound when there is no file, and may fail on a file that exists
\* (permission denied, bytes that are not UTF-8).
LoadConfig(p, path) ==
    /\ CanCall(p)
    /\ \E read \in {"ok", "PermissionDenied", "Io"} :
           LET began == [Idle EXCEPT !.op = "load_config", !.pc = "done",
                                     !.path = path, !.pre = files]
               there == Exists(files, File(path))
               content == files[File(path)]
               strippedText == strip_jsonc_comments(content)
           IN  call' = [call EXCEPT ![p] =
                   IF ~there
                     THEN [began EXCEPT !.result = "NotFound", !.failure = "read"]
                   ELSE IF read # "ok"
                     THEN [began EXCEPT !.result = read, !.failure = "read"]
                   ELSE IF ~validate_json(strippedText)
                     THEN [began EXCEPT !.result = "Validation",
                                        !.failure = "validate"]
                   ELSE [began EXCEPT !.result = "Ok",
                                      !.content = LoadedContent(content, strippedText)]]
    /\ ncalls' = ncalls + 1
    /\ UNCHANGED <<files, now, parserVars, sysVars>>

\* the place of a path among the paths in the order of their names as
\* strings: "config.jsonc" comes before "style.css"
PathRank(path) == IF path = ConfigFile THEN 1 ELSE 2

\* String::cmp (commands.rs:124) on two file names: a is less than b.  The
\* name of a backup begins with the name of its file, and the timestamps
\* are of one width, so two backups of one file compare as their times do.
NameLess(a, b) ==
    \/ PathRank(a[1]) < PathRank(b[1])
    \/ a[1] = b[1] /\ a[2] < b[2]

RECURSIVE SortDescending(_)
\* commands.rs:124: backups.sort_by(|a, b| b.cmp(a)), on distinct names
SortDescending(names) ==
    IF names = {} THEN <<>>
    ELSE LET top == CHOOSE n \in names : \A m \in names \ {n} : NameLess(m, n)
         IN  <<top>> \o SortDescending(names \ {top})

\* commands.rs:106-127: list_backups(config_dir); read_dir or the reading of
\* an entry may fail
ListBackups(p) ==
    /\ CanCall(p)
    /\ \E ok \in BOOLEAN :
           LET began == [Idle EXCEPT !.op = "list_backups", !.pc = "done",
                                     !.pre = files]
           IN  call' = [call EXCEPT ![p] =
                   IF ok
                     THEN [began EXCEPT !.result = "Ok",
                               !.listing = SortDescending({n \in DOMAIN files :
                                                              IsBackup(n)})]
                     ELSE [began EXCEPT !.result = "Io", !.failure = "read_dir"]]
    /\ ncalls' = ncalls + 1
    /\ UNCHANGED <<files, now, parserVars, sysVars>>

\* the frontend passes the content load_config returned, unchanged, to
\* save_config for the same path
SaveLoaded(p) ==
    /\ call[p].op = "load_config"
    /\ call[p].pc = "done"
    /\ call[p].result = "Ok"
    /\ ncalls < MaxCalls
    /\ call' = [call EXCEPT ![p] =
           [SaveConfigBegin(call[p].path, call[p].content, files)
               EXCEPT !.loaded = TRUE]]
    /\ ncalls' = ncalls + 1
    /\ UNCHANGED <<files, now, parserVars, sysVars>>

\* commands.rs:92-102: save_css up to the call of write_config_file
SaveCss(p, path, content) ==
    /\ CanCall(p)
    /\ call' = [call EXCEPT ![p] =
           IF IsBlank(content)
             THEN [Idle EXCEPT !.op = "save_css", !.pc = "done", !.path = path,
                               !.content = content, !.pre = files,
                               !.input = content,
                               !.result = "Validation", !.failure = "validate"]
             ELSE [Idle EXCEPT !.op = "save_css", !.pc = "exists", !.path = path,
                               !.content = content, !.pre = files,
                               !.input = content]]
    /\ ncalls' = ncalls + 1
    /\ UNCHANGED <<files, now, parserVars, sysVars>>

\* commands.rs:131: restore_backup is called
RestoreBackup(p, source, target) ==
    /\ CanCall(p)
    /\ call' = [call EXCEPT ![p] =
           [Idle EXCEPT !.op = "restore_backup", !.pc = "exists", !.path = target,
                        !.source = source, !.pre = files]]
    /\ ncalls' = ncalls + 1
    /\ UNCHANGED <<files, now, parserVars, sysVars>>

\* write_config_file, step 1: is there a file at path
WriteExists(p) ==
    /\ call[p].pc = "exists"
    /\ call[p].op \in {"save_config", "save_css"}
    /\ call' = [call EXCEPT ![p].pc =
           IF Exists(files, File(call[p].path)) THEN "backup" ELSE "write"]
    /\ UNCHANGED <<files, now, ncalls, parserVars, sysVars>>

\* commands.rs:133: Path::new(&target_path).exists()
RestoreExists(p) ==
    /\ call[p].pc = "exists"
    /\ call[p].op = "restore_backup"
    /\ call' = [call EXCEPT ![p].pc =
           IF Exists(files, File(call[p].path)) THEN "backup" ELSE "copy_read"]
    /\ UNCHANGED <<files, now, ncalls, parserVars, sysVars>>

\* where the caller of create_backup goes on
AfterBackup(op, ok) ==
    IF op = "restore_backup" THEN RestoreAfterBackup(ok) ELSE WriteAfterBackup(ok)

\* create_backup: the file at path is copied to the backup name made from
\* the path and the time.  The copy fails when the file cannot be read or
\* the backup cannot be written.
CreateBackup(p) ==
    /\ call[p].pc = "backup"
    /\ \E outcome \in {"ok", "backup_read", "backup_write"} :
           LET c == call[p]
               ok == outcome = "ok" /\ Exists(files, File(c.path))
               next == AfterBackup(c.op, ok)
           IN  /\ files' = IF ok THEN Put(files, BackupName(c.path, now),
                                          files[File(c.path)])
                           ELSE files
               /\ call' = [call EXCEPT ![p] =
                      IF next = "done"
                        THEN Failed(p, "Io", IF outcome = "ok" THEN "backup_read"
                                             ELSE outcome)
                        ELSE [c EXCEPT !.pc = next,
                                       !.stamp = IF ok THEN now ELSE 0]]
    /\ UNCHANGED <<now, ncalls, parserVars, sysVars>>

\* commands.rs:138: fs::copy opens and reads the backup file
CopyRead(p) ==
    /\ call[p].pc = "copy_read"
    /\ \E ok \in BOOLEAN :
           call' = [call EXCEPT ![p] =
               IF ok /\ Exists(files, call[p].source)
                 THEN [call[p] EXCEPT !.pc = "create",
                                      !.content = files[call[p].source]]
                 ELSE Failed(p, "Io", "copy_read")]
    /\ UNCHANGED <<files, now, ncalls, parserVars, sysVars>>

\* the calls once p has written its path with success: p holds the latest
\* write to the path
Wrote(p) ==
    [q \in Callers |->
        IF q = p THEN [call[p] EXCEPT !.pc = "done", !.result = "Ok", !.last = TRUE]
        ELSE IF call[q].path = call[p].path THEN [call[q] EXCEPT !.last = FALSE]
        ELSE call[q]]

\* a slip: the file is opened without truncation and written from offset 0
WriteContentInPlace(p) ==
    /\ call[p].pc = "write"
    /\ \E ok \in BOOLEAN :
           IF ok
             THEN /\ files' = Put(files, File(call[p].path),
                                  IF Exists(files, File(call[p].path))
                                    THEN Overlay(call[p].content,
                                                 files[File(call[p].path)])
                                    ELSE call[p].content)
                  /\ call' = Wrote(p)
             ELSE /\ files' = files
                  /\ call' = [call EXCEPT ![p] = Failed(p, "Io", "write")]
    /\ UNCHANGED <<now, ncalls, parserVars, sysVars>>

\* write_config_file, step 2: the content replaces the content of the file
\* at path in full, or the write fails and the file is as it was
WriteContent(p) ==
    /\ call[p].pc = "write"
    /\ \E ok \in BOOLEAN :
           IF ok
             THEN /\ files' = Put(files, File(call[p].path), call[p].content)
                  /\ call' = Wrote(p)
             ELSE /\ files' = files
                  /\ call' = [call EXCEPT ![p] = Failed(p, "Io", "write")]
    /\ UNCHANGED <<now, ncalls, parserVars, sysVars>>

\* commands.rs:138: fs::copy opens the target, creating or truncating it ...
CreateTarget(p) ==
    /\ call[p].pc = "create"
    /\ \E ok \in BOOLEAN :
           IF ok
             THEN /\ files' = Put(files, File(call[p].path), <<>>)
                  /\ call' = [call EXCEPT ![p].pc = "write_all"]
             ELSE /\ files' = files
                  /\ call' = [call EXCEPT ![p] = Failed(p, "Io", "create")]
    /\ UNCHANGED <<now, ncalls, parserVars, sysVars>>

\* ... and writes what it read; a write that fails leaves the file as the
\* open left it
WriteAll(p) ==
    /\ call[p].pc = "write_all"
    /\ \E ok \in BOOLEAN :
           IF ok /\ Exists(files, File(call[p].path))
             THEN /\ files' = Put(files, File(call[p].path),
                                  Overlay(call[p].content, files[File(call[p].path)]))
                  /\ call' = [call EXCEPT ![p].pc = "done", ![p].result = "Ok"]
             ELSE /\ files' = files
                  /\ call' = [call EXCEPT ![p] = Failed(p, "Io", "write_all")]
    /\ UNCHANGED <<now, ncalls, parserVars, sysVars>>

\* the command returns its result to the caller
Return(p) ==
    /\ call[p].pc = "done"
    /\ call' = [call EXCEPT ![p] = Idle]
    /\ UNCHANGED <<files, now, ncalls, parserVars, sysVars>>

\* the clock reaches the next timestamp
Tick ==
    /\ now < MaxClock
    /\ now' = now + 1
    /\ UNCHANGED <<files, call, ncalls, parserVars, sysVars>>

BackupsOf(fs) == {n \in DOMAIN fs : IsBackup(n)}

\* a caller takes the next step of its command
Step(p) ==
    \/ WriteExists(p)
    \/ RestoreExists(p)
    \/ CreateBackup(p)
    \/ WriteContent(p)
    \/ CopyRead(p)
    \/ CreateTarget(p)
    \/ WriteAll(p)
    \/ Return(p)

\* the commands run one after the other
NextFiles ==
    \/ \E p \in Callers, content \in JsonInputs :
           NoneRunning /\ SaveConfig(p, ConfigFile, content)
    \/ \E p \in Callers, content \in CssInputs :
           NoneRunning /\ SaveCss(p, StyleFile, content)
    \/ \E p \in Callers, source \in BackupsOf(files), target \in Paths :
           NoneRunning /\ RestoreBackup(p, source, target)
    \/ \E p \in Callers, path \in Paths :
           NoneRunning /\ LoadConfig(p, path)
    \/ \E p \in Callers :
           NoneRunning /\ ListBackups(p)
    \/ \E p \in Callers : SaveLoaded(p)
    \/ \E p \in Callers : Step(p)
    \/ Tick

SpecFiles == InitFiles /\ [][NextFiles]_vars

\* a caller takes the next step of save_config or save_css
StepWrite(p) ==
    \/ WriteExists(p)
    \/ CreateBackup(p)
    \/ WriteContent(p)
    \/ Return(p)

\* save_config and save_css called from concurrent request handlers: a
\* command may begin while the command of the other caller runs
NextRace ==
    \/ \E p \in Callers, content \in JsonInputs :
           ncalls < MaxRaceCalls /\ SaveConfig(p, ConfigFile, content)
    \/ \E p \in Callers, content \in CssInputs :
           ncalls < MaxRaceCalls /\ SaveCss(p, StyleFile, content)
    \/ \E p \in Callers : StepWrite(p)
    \/ Tick

SpecRace == InitFiles /\ [][NextRace]_vars

(***************************************************************************)
(* The commands of system/compositor.rs and waybar/process.rs.  They run   *)
(* one at a time; sys holds the running command and its local variables.   *)
(***************************************************************************)
\* the program runs in some environment, with Waybar running or not
InitSystem ==
    /\ env \in Environments
    /\ waybar \in {<<>>, <<"running">>}
    /\ sys = SysIdle
    /\ scan = ScanInit(<<>>)
    /\ pc = "idle"
    /\ stripped = <<>>
    /\ parsed = NotParsed
    /\ value = NoValue
    /\ doc = <<>>
    /\ NoFiles

\* compositor.rs:95-96: detect_compositor is called
DetectCompositor ==
    /\ sys.pc = "idle"
    /\ sys' = [SysIdle EXCEPT !.op = "detect_compositor", !.pc = "detect"]
    /\ UNCHANGED <<env, waybar, parserVars, fileVars>>

\* compositor.rs:249-251: is_compositor_running(compositor_name) is called
IsCompositorRunning(name) ==
    /\ sys.pc = "idle"
    /\ sys' = [SysIdle EXCEPT !.op = "is_compositor_running", !.pc = "detect",
                              !.name = name, !.requested = From(name)]
    /\ UNCHANGED <<env, waybar, parserVars, fileVars>>

\* compositor.rs:111-116, 119-124: the variable names a known compositor
NamesKnown(e, name) == VarIsOk(e, name) /\ is_known(From(e[name]))

\* compositor.rs:104-124: detect_compositor_internal up to the process list
DetectFromEnv ==
    /\ sys.pc = "detect"
    /\ sys' =
           IF ~is_wayland_session(env)
             THEN [sys EXCEPT !.pc = "detected", !.current = Unknown]
           ELSE IF NamesKnown(env, "XDG_CURRENT_DESKTOP")
             THEN [sys EXCEPT !.pc = "detected",
                              !.current = From(env["XDG_CURRENT_DESKTOP"])]
           ELSE IF NamesKnown(env, "WAYLAND_COMPOSITOR")
             THEN [sys EXCEPT !.pc = "detected",
                              !.current = From(env["WAYLAND_COMPOSITOR"])]
           ELSE [sys EXCEPT !.pc = "pgrep", !.idx = 1]
    /\ UNCHANGED <<env, waybar, parserVars, fileVars>>

\* compositor.rs:161-175 and 127-134: one round of the loop of
\* detect_from_processes.  pgrep -x may fail to be executed: the error ends
\* detect_from_processes and detect_compositor_internal drops it.
Pgrep ==
    /\ sys.pc = "pgrep"
    /\ \E executes \in BOOLEAN :
           sys' =
               IF ~executes
                 THEN [sys EXCEPT !.pc = "detected", !.current = Unknown,
                                  !.pgrep_failed = TRUE]
               ELSE IF ProcessNames[sys.idx] \in env.running
                 THEN [sys EXCEPT !.pc = "detected",
                                  !.current = ProcessCompositor[sys.idx]]
               ELSE IF sys.idx < Len(ProcessNames)
                 THEN [sys EXCEPT !.idx = sys.idx + 1]
               ELSE [sys EXCEPT !.pc = "detected", !.current = Unknown]
    /\ UNCHANGED <<env, waybar, parserVars, fileVars>>

\* compositor.rs:253
SameCompositor(requested, current) == requested = current

\* compositor.rs:97 and 253: the command returns
Detected ==
    /\ sys.pc = "detected"
    /\ sys' = [sys EXCEPT
           !.pc = "done",
           !.result = "Ok",
           !.value = IF sys.op = "detect_compositor" THEN as_str(sys.current)
                     ELSE IF SameCompositor(sys.requested, sys.current) THEN "true"
                     ELSE "false"]
    /\ UNCHANGED <<env, waybar, parserVars, fileVars>>

\* process.rs:202-203: restart_waybar is called
RestartWaybar ==
    /\ sys.pc = "idle"
    /\ Len(waybar) < MaxProcs
    /\ sys' = [SysIdle EXCEPT !.op = "restart_waybar", !.pc = "stop_check",
                              !.before = Len(waybar)]
    /\ UNCHANGED <<env, waybar, parserVars, fileVars>>

\* restart_waybar returns the error of stop_waybar or start_waybar
RestartFails(kind) == [sys EXCEPT !.pc = "done", !.result = kind]

\* process.rs:164-166: stop_waybar asks is_waybar_running
StopCheck ==
    /\ sys.pc = "stop_check"
    /\ \E executes \in BOOLEAN :
           sys' = IF ~executes THEN [RestartFails("Internal") EXCEPT !.stop = "Internal"]
                  ELSE IF Alive(waybar) = {} THEN [sys EXCEPT !.pc = "sleep", !.stop = "Ok"]
                  ELSE [sys EXCEPT !.pc = "stop_kill"]
    /\ UNCHANGED <<env, waybar, parserVars, fileVars>>

\* process.rs:169-188: pkill waybar.  It is not executed; or it signals the
\* processes; or it exits with a failure and a message; or it matches no
\* process and exits with a failure and no message, which is taken as Ok.
StopKill ==
    /\ sys.pc = "stop_kill"
    /\ \E outcome \in {"not executed", "signalled", "refused", "no match"} :
           /\ outcome = "signalled" => Alive(waybar) # {}
           /\ outcome = "no match" => Alive(waybar) = {}
           /\ waybar' = IF outcome = "signalled" THEN Signalled(waybar) ELSE waybar
           /\ sys' = IF outcome \in {"not executed", "refused"}
                        THEN [RestartFails("Internal") EXCEPT !.stop = "Internal"]
                        ELSE [sys EXCEPT !.pc = "sleep", !.stop = "Ok"]
    /\ UNCHANGED <<env, parserVars, fileVars>>

\* process.rs:206: the thread sleeps 500 ms
Sleep ==
    /\ sys.pc = "sleep"
    /\ sys' = [sys EXCEPT !.pc = "start_check"]
    /\ UNCHANGED <<env, waybar, parserVars, fileVars>>

\* process.rs:137-139: start_waybar asks is_waybar_running
StartCheck ==
    /\ sys.pc = "start_check"
    /\ \E executes \in BOOLEAN :
           sys' = IF ~executes THEN RestartFails("Internal")
                  ELSE IF Alive(waybar) # {} THEN [sys EXCEPT !.pc = "done", !.result = "Ok"]
                  ELSE [sys EXCEPT !.pc = "spawn"]
    /\ UNCHANGED <<env, waybar, parserVars, fileVars>>

\* process.rs:142-148: Command::new("waybar").spawn()
Spawn ==
    /\ sys.pc = "spawn"
    /\ \E ok \in BOOLEAN :
           /\ waybar' = IF ok THEN Append(waybar, "running") ELSE waybar
           /\ sys' = IF ok THEN [sys EXCEPT !.pc = "done", !.result = "Ok"]
                      ELSE RestartFails("Internal")
    /\ UNCHANGED <<env, parserVars, fileVars>>

\* a Waybar process that received SIGTERM exits, when it has shut down
Exit ==
    /\ \E i \in 1..Len(waybar) :
           /\ waybar[i] = "terminating"
           /\ waybar' = [waybar EXCEPT ![i] = "exited"]
    /\ UNCHANGED <<env, sys, parserVars, fileVars>>

\* the result goes back to the frontend
SysReturn ==
    /\ sys.pc = "done"
    /\ sys' = SysIdle
    /\ UNCHANGED <<env, waybar, parserVars, fileVars>>

NextSystem ==
    \/ DetectCompositor
    \/ \E name \in Strings : IsCompositorRunning(name)
    \/ DetectFromEnv
    \/ Pgrep
    \/ Detected
    \/ RestartWaybar
    \/ StopCheck
    \/ StopKill
    \/ Sleep
    \/ StartCheck
    \/ Spawn
    \/ Exit
    \/ SysReturn

SpecSystem == InitSystem /\ [][NextSystem]_vars

(***************************************************************************)
(* Vocabulary of the properties of the scanner.                            *)
(***************************************************************************)
IndexSet(t) == 1..Len(t)

RECURSIVE BackslashRun(_, _)
\* the number of consecutive backslashes of t that end at index i
BackslashRun(t, i) ==
    IF i < 1 \/ i > Len(t) THEN 0
    ELSE IF t[i] = BS THEN 1 + BackslashRun(t, i - 1)
    ELSE 0

Odd(n) == n % 2 = 1

\* s holds no double quote but escaped ones
NoUnescapedQuote(s) ==
    \A i \in IndexSet(s) : s[i] = DQ => Odd(BackslashRun(s, i - 1))

\* t is a double quote, a body with no unescaped double quote, a double quote
IsQuoted(t) ==
    /\ Len(t) >= 2
    /\ t[1] = DQ
    /\ t[Len(t)] = DQ
    /\ NoUnescapedQuote(SubSeq(t, 2, Len(t) - 1))

\* a comment marker starts at index i of t
MarkerAt(t, i) == i + 1 <= Len(t) /\ t[i] = SL /\ t[i + 1] \in {SL, ST}

Min(S) == CHOOSE x \in S : \A y \in S : x <= y

RECURSIVE Count(_, _)
\* the number of occurrences of character c in t
Count(c, t) ==
    IF t = <<>> THEN 0
    ELSE (IF Head(t) = c THEN 1 ELSE 0) + Count(c, Tail(t))

\* the loop is about to scan a character
Scanning == pc = "scan" /\ ~AtEnd(scan)

\* the character the loop is about to scan
Ch == scan.content[scan.pos]

\* the call returns in this step
Returns == pc = "scan" /\ pc' = "stripped"

(***************************************************************************)
(* C1.  No character inside a double-quoted string literal is removed or   *)
(* altered: a character scanned while in_string is true is appended to the *)
(* output as it is, and a text that is one string literal (no unescaped    *)
(* double quote between its two quotes) is returned unchanged, whatever    *)
(* comment markers it holds.                                               *)
(***************************************************************************)
C1_InStringCopied ==
    Scanning /\ scan.in_string =>
        /\ scan'.result = Append(scan.result, Ch)
        /\ scan'.pos = scan.pos + 1

C1_QuotedUnchanged ==
    Returns /\ IsQuoted(scan.content) => stripped' = scan.content

\* C1: a character scanned inside a string literal is copied unchanged, and
\* a text that is one string literal is returned as it is.
C1_StringsPreserved == [][C1_InStringCopied /\ C1_QuotedUnchanged]_vars

\* "//*" has been stripped to itself (the quotes are part of the text)
C1_Witness ==
    /\ pc = "stripped"
    /\ IsQuoted(scan.content)
    /\ \E i \in IndexSet(scan.content) :
           MarkerAt(scan.content, i) /\ MarkerAt(scan.content, i + 1)
    /\ stripped = scan.content

(***************************************************************************)
(* C2.  Inside a string literal a double quote after an odd number of      *)
(* consecutive backslashes does not end the string, and one after an even  *)
(* number (zero included) does.  For a text that opens a string at its     *)
(* first character and has its next double quote at index j: with an odd   *)
(* run of backslashes before j a comment marker right after j is kept,     *)
(* with an even run it is not copied.                                      *)
(***************************************************************************)
C2_QuoteStep ==
    Scanning /\ scan.in_string /\ Ch = DQ =>
        scan'.in_string = Odd(BackslashRun(scan.content, scan.pos - 1))

\* index j holds the first double quote after the opening one
SecondQuote(t, j) ==
    /\ Len(t) >= 2
    /\ t[1] = DQ
    /\ j \in 2..Len(t)
    /\ t[j] = DQ
    /\ \A i \in 2..(j - 1) : t[i] # DQ

C2_MarkerAfterQuote ==
    Returns =>
        \A j \in IndexSet(scan.content) :
            SecondQuote(scan.content, j) /\ MarkerAt(scan.content, j + 1) =>
                /\ SubSeq(stripped', 1, j) = SubSeq(scan.content, 1, j)
                /\ Odd(BackslashRun(scan.content, j - 1)) =>
                       /\ Len(stripped') >= j + 2
                       /\ SubSeq(stripped', 1, j + 2) = SubSeq(scan.content, 1, j + 2)
                /\ ~Odd(BackslashRun(scan.content, j - 1)) =>
                       ~ /\ Len(stripped') >= j + 2
                         /\ SubSeq(stripped', 1, j + 2) = SubSeq(scan.content, 1, j + 2)

\* C2: inside a string a double quote after an odd run of backslashes does
\* not end the string and a marker after it is kept; after an even run it
\* ends the string and the marker is not copied.
C2_EscapedQuotes == [][C2_QuoteStep /\ C2_MarkerAfterQuote]_vars

\* "\\"// : the quote after two backslashes ends the string, the comment goes
C2_Witness ==
    /\ pc = "stripped"
    /\ scan.content = <<DQ, BS, BS, DQ, SL, SL>>
    /\ stripped = <<DQ, BS, BS, DQ>>

\* "\"/* : the quote after one backslash does not end the string
C2_WitnessOdd ==
    /\ pc = "stripped"
    /\ scan.content = <<DQ, BS, DQ, SL, ST>>
    /\ stripped = scan.content

(***************************************************************************)
(* C3.  A '//' outside a string removes the characters from the '//' up to *)
(* the next newline and copies that newline; with no newline left it       *)
(* removes the rest of the input and emits nothing.  No step but the start *)
(* of a block comment changes the number of newlines, so a text with no    *)
(* '/' '*' pair has as many newlines after stripping as before.            *)
(***************************************************************************)
\* the indices from i on that hold a newline
NewlinesFrom(t, i) == {k \in i..Len(t) : t[k] = NL}

LineCommentStarts ==
    Scanning /\ ~scan.in_string /\ Ch = SL /\ Peek(scan) = SL

BlockCommentStarts ==
    Scanning /\ ~scan.in_string /\ Ch = SL /\ Peek(scan) = ST

C3_LineCommentStep ==
    LineCommentStarts =>
        LET nls == NewlinesFrom(scan.content, scan.pos + 2)
        IN  IF nls = {}
              THEN /\ scan'.pos = Len(scan.content) + 1
                   /\ scan'.result = scan.result
              ELSE /\ scan'.pos = Min(nls) + 1
                   /\ scan'.result = Append(scan.result, NL)

C3_NewlinesKeptByStep ==
    Scanning /\ ~BlockCommentStarts =>
        Count(NL, scan'.result) - Count(NL, scan.result)
            = Count(NL, SubSeq(scan.content, scan.pos, scan'.pos - 1))

HasSlashStar(t) == \E i \in IndexSet(t) : i < Len(t) /\ t[i] = SL /\ t[i + 1] = ST

C3_NewlinesKept ==
    Returns /\ ~HasSlashStar(scan.content) =>
        Count(NL, stripped') = Count(NL, scan.content)

\* C3: a line comment is removed up to its newline, which is copied; with
\* no newline the rest is removed; newlines are conserved by every step but
\* the start of a block comment.
C3_LineComments ==
    [][C3_LineCommentStep /\ C3_NewlinesKeptByStep /\ C3_NewlinesKept]_vars

\* "// c\nX" gives "\nX"
C3_Witness ==
    /\ pc = "stripped"
    /\ scan.content = <<SL, SL, PLAIN, NL, PLAIN>>
    /\ stripped = <<NL, PLAIN>>

(***************************************************************************)
(* C4.  A '/' '*' outside a string removes the characters from it through  *)
(* the first '*' '/' that starts after the opener, whatever lies between,  *)
(* and the scan goes on right after it, outside a string; with no '*' '/'  *)
(* left it removes the rest of the input.  A PLAIN followed by a block     *)
(* comment that never closes gives the PLAIN alone.                        *)
(***************************************************************************)
\* the indices of the '/' of a '*' '/' pair that starts at index i or later
ClosersFrom(t, i) == {k \in (i + 1)..Len(t) : t[k - 1] = ST /\ t[k] = SL}

C4_BlockCommentStep ==
    BlockCommentStarts =>
        LET closers == ClosersFrom(scan.content, scan.pos + 2)
        IN  /\ scan'.result = scan.result
            /\ ~scan'.in_string
            /\ ~scan'.escape_next
            /\ scan'.pos = IF closers = {} THEN Len(scan.content) + 1
                           ELSE Min(closers) + 1

C4_NeverCloses ==
    /\ Returns
    /\ Len(scan.content) >= 3
    /\ SubSeq(scan.content, 1, 3) = <<PLAIN, SL, ST>>
    /\ ClosersFrom(scan.content, 4) = {}
    => stripped' = <<PLAIN>>

\* C4: a block comment is removed through the first '*' '/' after its
\* opener, or to the end of the input, and the scan resumes outside a string.
C4_BlockComments == [][C4_BlockCommentStep /\ C4_NeverCloses]_vars

\* /*/*/1 : the comment ends at the first '*' '/', the 1 is scanned normally
C4_Witness ==
    /\ pc = "stripped"
    /\ scan.content = <<SL, ST, SL, ST, SL, PLAIN>>
    /\ stripped = <<PLAIN>>

(***************************************************************************)
(* C5.  A text with no '//' and no '/' '*' outside its string literals is  *)
(* returned unchanged, and stripping the result again changes nothing.     *)
(***************************************************************************)
RECURSIVE InsideString(_, _)
\* Whether index i of a comment-free text lies inside a string literal:
\* <<inside, escaped>> once t[1..i-1] has been read, a string running from
\* a double quote to the next one that is not escaped.
InsideString(t, i) ==
    IF i <= 1 THEN <<FALSE, FALSE>>
    ELSE LET before == InsideString(t, i - 1)
             c == t[i - 1]
         IN  IF ~before[1] THEN <<c = DQ, FALSE>>
             ELSE IF before[2] THEN <<TRUE, FALSE>>
             ELSE IF c = BS THEN <<TRUE, TRUE>>
             ELSE <<c # DQ, FALSE>>

NoMarkerOutsideStrings(t) ==
    \A i \in IndexSet(t) : MarkerAt(t, i) => InsideString(t, i)[1]

C5_CommentFree ==
    Returns /\ NoMarkerOutsideStrings(scan.content) =>
        /\ stripped' = scan.content
        /\ strip_jsonc_comments(stripped') = stripped'

\* C5: a text with no comment marker outside its strings is returned
\* unchanged, and stripping it again returns it again.
C5_CommentFreeUnchanged == [][C5_CommentFree]_vars

\* "/*"/ : a marker inside a string and a lone slash outside
C5_Witness ==
    /\ pc = "stripped"
    /\ scan.content = <<DQ, SL, ST, DQ, SL>>
    /\ NoMarkerOutsideStrings(scan.content)
    /\ stripped = scan.content

(***************************************************************************)
(* C6.  Round trip: a JSON value written out with line and block comments  *)
(* between its tokens strips to its tokens, with a newline where a line    *)
(* comment ended, and that text parses to the value.                       *)
(***************************************************************************)
C6_Stripped == pc \in {"stripped", "parsed"} => stripped = WithoutComments(doc)

C6_Parsed == pc = "parsed" => parsed = [ok |-> TRUE, value |-> value]

\* C6: the commented serialization of a value strips to its tokens (a
\* newline kept per line comment) and parses to the value.
C6_RoundTrip == C6_Stripped /\ C6_Parsed

\* [1 /*"*/ , //"\n "\"/" ] has parsed to the array of 1 and the string "/
C6_Witness ==
    /\ pc = "parsed"
    /\ value = Arr(<<Num(<<PLAIN>>), Str(<<DQ, SL>>)>>)
    /\ \E i, j \in IndexSet(doc) :
           /\ i < j
           /\ doc[i] = <<"block", <<SL, ST, DQ, ST, SL>>>>
           /\ doc[j] = <<"line", <<SL, SL, DQ, NL>>>>
    /\ parsed = [ok |-> TRUE, value |-> value]

(***************************************************************************)
(* Vocabulary of the properties of the commands that write files.          *)
(***************************************************************************)
\* the caller p has run write_config_file to its end (save_config, save_css)
WriteDone(p) == call[p].pc = "done" /\ call[p].op \in {"save_config", "save_css"}

\* the file the command of p writes
Target(p) == File(call[p].path)

\* the files that exist now and did not when the command of p began
NewFiles(p) == DOMAIN files \ DOMAIN call[p].pre

(***************************************************************************)
(* C7.  write_config_file makes a backup exactly when the target exists:   *)
(* after a successful call the target holds the content written; if the    *)
(* target held C1 before, exactly one file is new and it holds C1; if      *)
(* there was no target, the target is the only new file.                   *)
(***************************************************************************)
C7_OneNewBackup ==
    \A p \in Callers :
        WriteDone(p) /\ call[p].result = "Ok" =>
            /\ files[Target(p)] = call[p].content
            /\ IF Exists(call[p].pre, Target(p))
                 THEN \E b \in NewFiles(p) :
                          /\ NewFiles(p) = {b}
                          /\ IsBackup(b)
                          /\ files[b] = call[p].pre[Target(p)]
                 ELSE NewFiles(p) = {Target(p)}

\* the same, for the calls whose backup name was free when they began
C7_OneNewBackupIfNameFree ==
    \A p \in Callers :
        /\ WriteDone(p)
        /\ call[p].result = "Ok"
        /\ ~Exists(call[p].pre, BackupName(call[p].path, call[p].stamp))
        => /\ files[Target(p)] = call[p].content
           /\ IF Exists(call[p].pre, Target(p))
                THEN \E b \in NewFiles(p) :
                         /\ NewFiles(p) = {b}
                         /\ IsBackup(b)
                         /\ files[b] = call[p].pre[Target(p)]
                ELSE NewFiles(p) = {Target(p)}

(***************************************************************************)
(* C8.  The backup comes before the write: a command that is about to      *)
(* write a target that existed when it began has made a backup that holds  *)
(* the target's content, and a command that ends because the backup could  *)
(* not be made (the file not read, the backup not written) ends with an    *)
(* error and leaves the target with the content it had.                    *)
(***************************************************************************)
C8_BackupBeforeWrite ==
    \A p \in Callers :
        LET c == call[p]
        IN  /\ c.pc \in {"write", "create", "write_all"} /\ Exists(c.pre, Target(p)) =>
                   /\ c.stamp > 0
                   /\ Exists(files, BackupName(c.path, c.stamp))
                   /\ files[BackupName(c.path, c.stamp)] = c.pre[Target(p)]
            /\ c.pc = "done" /\ c.failure \in {"backup_read", "backup_write"} =>
                   /\ c.result = "Io"
                   /\ Exists(files, Target(p))
                   /\ files[Target(p)] = c.pre[Target(p)]

\* save_config has ended with an error because the backup was not written
C8_Witness ==
    \E p \in Callers :
        /\ call[p].op = "save_config"
        /\ call[p].pc = "done"
        /\ call[p].failure = "backup_write"
        /\ call[p].result = "Io"
        /\ Exists(call[p].pre, Target(p))
        /\ files[Target(p)] = call[p].pre[Target(p)]

(***************************************************************************)
(* C9.  No partial state: when write_config_file has ended, with or        *)
(* without an error, either the target holds the new content and (if it    *)
(* existed) a backup holds the old one, or no backup was made and the      *)
(* target was not written.                                                 *)
(***************************************************************************)
C9_NoPartialState ==
    \A p \in Callers :
        WriteDone(p) =>
            \/ /\ Exists(files, Target(p))
               /\ files[Target(p)] = call[p].content
               /\ Exists(call[p].pre, Target(p)) =>
                      \E b \in BackupsOf(files) : files[b] = call[p].pre[Target(p)]
            \/ files = call[p].pre

(***************************************************************************)
(* C10.  Backups are never overwritten: no step of a write_config_file     *)
(* call changes or removes a backup that exists, and the backup such a     *)
(* call makes has a name no file had.                                      *)
(***************************************************************************)
\* the caller p takes a step of write_config_file
WriteSteps(p) == call[p].op \in {"save_config", "save_css"} /\ call'[p] # call[p]

C10_BackupsKept ==
    (\E p \in Callers : WriteSteps(p)) =>
        \A b \in BackupsOf(files) : Exists(files', b) /\ files'[b] = files[b]

C10_BackupNamesFresh ==
    \A p \in Callers :
        WriteSteps(p) /\ call[p].pc = "backup" /\ call'[p].stamp > 0 =>
            ~Exists(files, BackupName(call[p].path, call'[p].stamp))

\* C10: no step of write_config_file changes a backup that exists, and its
\* own backup gets a name no file had.
C10_BackupsNeverOverwritten == [][C10_BackupsKept /\ C10_BackupNamesFresh]_vars

\* the same, for the steps taken at a time no backup of the path is stamped
\* with
C10_BackupsKeptAtFreshTime ==
    [][(\E p \in Callers :
            WriteSteps(p) /\ ~Exists(files, BackupName(call[p].path, now))) =>
           \A b \in BackupsOf(files) : Exists(files', b) /\ files'[b] = files[b]]_vars

C12_ValidateBeforeFiles ==
    \A p \in Callers :
        call[p].op = "save_config" =>
            IF from_str(call[p].input).ok
              THEN /\ call[p].result # "Validation"
                   /\ call[p].pc \in {"exists", "backup"} => files = call[p].pre
                   /\ call[p].pc = "write" /\ Exists(call[p].pre, Target(p)) =>
                          /\ call[p].stamp > 0
                          /\ Exists(files, BackupName(call[p].path, call[p].stamp))
                          /\ files[Target(p)] = call[p].pre[Target(p)]
              ELSE /\ call[p].pc = "done"
                   /\ call[p].result = "Validation"
                   /\ files = call[p].pre

\* save_config of [1,] on an existing config.jsonc has returned Validation
C12_Witness ==
    \E p \in Callers :
        /\ call[p].op = "save_config"
        /\ call[p].input = <<LB, PLAIN, CM, RB>>
        /\ call[p].pc = "done"
        /\ call[p].result = "Validation"
        /\ Exists(files, File(ConfigFile))
        /\ BackupsOf(files) # {}
        /\ files = call[p].pre

(***************************************************************************)
(* C13.  load_config changes no file.  It returns Ok exactly when the file *)
(* is there, is read, and its comment-stripped text is valid JSON, and     *)
(* then the content returned is the text of the file as it is, comments    *)
(* included.  With no file it returns NotFound; with a file that is read   *)
(* and whose stripped text is not valid JSON it returns Validation.        *)
(***************************************************************************)
\* the command of p is a load_config call that has ended
LoadDone(p) == call[p].op = "load_config" /\ call[p].pc = "done"

\* the read of the file of p's command did not fail
WasRead(p) == Exists(call[p].pre, Target(p)) /\ call[p].failure # "read"

KnownNames == {"hyprland", "sway", "river", "dwl", "niri"}

\* the known compositor names the value v of a variable is, whatever its case
NamedBy(v) == {n \in KnownNames : v \notin {Unset, NotUnicode} /\ n = to_lowercase(v)}

\* the first process name, in the order of the list, that runs in e
FirstRunning(e) ==
    LET found == {i \in 1..Len(ProcessNames) : ProcessNames[i] \in e.running}
    IN  IF found = {} THEN "unknown" ELSE to_lowercase(ProcessNames[Min(found)])

\* the name the priority order gives in environment e, for a Wayland session
Priority(e, pgrepFailed) ==
    IF NamedBy(e["XDG_CURRENT_DESKTOP"]) # {}
      THEN CHOOSE n \in NamedBy(e["XDG_CURRENT_DESKTOP"]) : TRUE
    ELSE IF NamedBy(e["WAYLAND_COMPOSITOR"]) # {}
      THEN CHOOSE n \in NamedBy(e["WAYLAND_COMPOSITOR"]) : TRUE
    ELSE IF pgrepFailed THEN "unknown"
    ELSE FirstRunning(e)

DetectDone == sys.op = "detect_compositor" /\ sys.pc = "done"

StartedSince == (sys.before + 1)..Len(waybar)

\* C15: restart_waybar starts only after a stop that returned Ok, and when
\* it returns Ok a Waybar process started after the stop is running.
C15_RestartLeavesNewProcess ==
    sys.op = "restart_waybar" =>
        /\ sys.pc \in {"sleep", "start_check", "spawn"} => sys.stop = "Ok"
        /\ sys.pc = "done" /\ sys.stop # "Ok" =>
               /\ sys.result = sys.stop
               /\ StartedSince = {}
        /\ sys.pc = "done" /\ sys.result = "Ok" =>
               \E i \in StartedSince : waybar[i] = "running"

\* the part of C15 that holds: the order of stop and start
C15_StartOnlyAfterStop ==
    sys.op = "restart_waybar" =>
        /\ sys.pc \in {"sleep", "start_check", "spawn"} => sys.stop = "Ok"
        /\ sys.pc = "done" /\ sys.stop # "Ok" =>
               /\ sys.result = sys.stop
               /\ StartedSince = {}
        /\ StartedSince # {} => sys.stop = "Ok"

(***************************************************************************)
(* C18.  is_compositor_running(name) returns true only when name, in       *)
(* lowercase, is a known compositor and is the compositor detected; for    *)
(* any other name, and when no compositor is detected, it returns false.   *)
(***************************************************************************)
\* the name detection gives in the environment of the running command
DetectedName ==
    IF env["WAYLAND_DISPLAY"] \in {Unset, NotUnicode} THEN "unknown"
    ELSE Priority(env, sys.pgrep_failed)

\* C18: true only for a known name that is the detected compositor; false
\* for every other name and whenever nothing is detected.
C18_TrueOnlyForDetected ==
    sys.op = "is_compositor_running" /\ sys.pc = "done" =>
        /\ sys.result = "Ok"
        /\ sys.value = "true" =>
               /\ to_lowercase(sys.name) \in KnownNames
               /\ to_lowercase(sys.name) = DetectedName
        /\ to_lowercase(sys.name) \notin KnownNames \/ DetectedName = "unknown" =>
               sys.value = "false"

\* the part of C18 that holds: for a known name, true exactly when it is
\* the detected compositor
C18_KnownNameTrueIffDetected ==
    /\ sys.op = "is_compositor_running"
    /\ sys.pc = "done"
    /\ to_lowercase(sys.name) \in KnownNames
    => (sys.value = "true" <=> to_lowercase(sys.name) = DetectedName)

(***************************************************************************)
(* C16.  restore_backup backs the target up before it overwrites it.  A    *)
(* call that ended because the backup of an existing target failed left    *)
(* the target unchanged.  After a call that returned Ok the target holds   *)
(* what the chosen backup held when the call began and, if the target      *)
(* existed, some backup holds what the target held.                        *)
(***************************************************************************)
RestoreDone(p) == call[p].op = "restore_backup" /\ call[p].pc = "done"

\* the target holds the text the source held when the command of p began,
\* and a backup holds the text the target held
Restored(p) ==
    /\ files[Target(p)] = call[p].pre[call[p].source]
    /\ Exists(call[p].pre, Target(p)) =>
           \E b \in BackupsOf(files) : files[b] = call[p].pre[Target(p)]

\* C16: a failed backup leaves the target unchanged, and a restore that
\* returned Ok left the backup's text in the target and the target's
\* previous text in a backup.
C16_RestoreFromBackup ==
    \A p \in Callers :
        RestoreDone(p) =>
            /\ call[p].failure \in {"backup_read", "backup_write"} =>
                   /\ call[p].result = "Io"
                   /\ files[Target(p)] = call[p].pre[Target(p)]
            /\ call[p].result = "Ok" => Restored(p)

\* the same, for the calls whose own backup did not take the name of the
\* backup they restore
C16_RestoreFromOtherName ==
    \A p \in Callers :
        RestoreDone(p) =>
            /\ call[p].failure \in {"backup_read", "backup_write"} =>
                   /\ call[p].result = "Io"
                   /\ files[Target(p)] = call[p].pre[Target(p)]
            /\ call[p].result = "Ok"
                   /\ call[p].source # BackupName(call[p].path, call[p].stamp)
                   => Restored(p)

(***************************************************************************)
(* C17.  list_backups returns the names of the directory that hold the     *)
(* backup marker, each once, the newest timestamp first, whatever files    *)
(* the backups are backups of.                                             *)
(***************************************************************************)
ListDone(p) ==
    call[p].op = "list_backups" /\ call[p].pc = "done" /\ call[p].result = "Ok"

\* the listing of p holds exactly the backups of the directory, each once
ListsEveryBackupOnce(p) ==
    LET l == call[p].listing
    IN  /\ {l[i] : i \in 1..Len(l)} = BackupsOf(call[p].pre)
        /\ Len(l) = Cardinality(BackupsOf(call[p].pre))

\* C17: the listing holds every backup once and no other name, ordered by
\* timestamp, the newest first.
C17_NewestFirst ==
    \A p \in Callers :
        ListDone(p) =>
            /\ ListsEveryBackupOnce(p)
            /\ \A i, j \in 1..Len(call[p].listing) :
                   i < j => call[p].listing[i][2] >= call[p].listing[j][2]

\* the part of C17 that holds: every backup once, and the backups of one
\* file newest first
C17_NewestFirstPerFile ==
    \A p \in Callers :
        ListDone(p) =>
            /\ ListsEveryBackupOnce(p)
            /\ \A i, j \in 1..Len(call[p].listing) :
                   i < j /\ call[p].listing[i][1] = call[p].listing[j][1] =>
                       call[p].listing[i][2] > call[p].listing[j][2]

(***************************************************************************)
(* C19.  strip_jsonc_comments is idempotent on every input: the text it    *)
(* returns has no '//' and no '/' '*' outside a string literal, and        *)
(* stripping it again returns it unchanged.                                *)
(***************************************************************************)
C19_OutputIsFixed ==
    Returns =>
        /\ NoMarkerOutsideStrings(stripped')
        /\ strip_jsonc_comments(stripped') = stripped'

\* C19: for every text t, strip(strip(t)) = strip(t), and strip(t) holds no
\* comment marker outside a string literal.
C19_Idempotent == [][C19_OutputIsFixed]_vars

\* a text with a comment has been stripped to a text that holds a marker
\* inside a string and a lone '/', and that text strips to itself
C19_Witness ==
    /\ pc = "stripped"
    /\ scan.content # stripped
    /\ \E i \in IndexSet(stripped) : MarkerAt(stripped, i)
    /\ \E i \in IndexSet(stripped) : stripped[i] = SL /\ ~MarkerAt(stripped, i)
    /\ strip_jsonc_comments(stripped) = stripped

(***************************************************************************)
(* C20.  Load and save are not inverse on a commented file.  For a file    *)
(* that is read, has a comment outside its string literals and whose       *)
(* stripped text is valid JSON, load_config returns Ok with the text; and  *)
(* save_config called with that text for the same path ends with a         *)
(* Validation error and leaves every file, backups included, as it was.    *)
(***************************************************************************)
\* the text has a comment: a marker outside its string literals
Commented(t) == ~NoMarkerOutsideStrings(t)

====
